---- MODULE Spec2Model ----
(***************************************************************************)
(* AsyncAlpine (src/src/core/async-alpine.js): lazy loading of Alpine      *)
(* components.  Strings are modelled as sequences of symbols, a DOM        *)
(* element as the function from the names of the attributes it carries to  *)
(* their values, the registry `_data` as the function from the registered  *)
(* names to their records.                                                 *)
(***************************************************************************)
EXTENDS Integers, Sequences, FiniteSets, TLC

\* ------------------------------------------------------------------ bounds
NumElements == 2

Elements == 1..NumElements

\* ------------------------------------------------------------------ strings
\* the value getAttribute returns for an attribute the element does not carry
Null == <<"null">>

\* JavaScript truthiness of a string-or-null value: !v
Falsy(v) == v = Null \/ v = <<>>

\* index of the first occurrence of sep in s, 0 when there is none
IndexOf(s, sep) ==
  IF \E i \in 1..Len(s) : s[i] = sep
  THEN CHOOSE i \in 1..Len(s) : s[i] = sep /\ \A j \in 1..(i - 1) : s[j] # sep
  ELSE 0

\* String.prototype.split(sep)
RECURSIVE Split(_, _)
Split(s, sep) ==
  LET i == IndexOf(s, sep)
  IN IF i = 0 THEN <<s>>
     ELSE <<SubSeq(s, 1, i - 1)>> \o Split(SubSeq(s, i + 1, Len(s)), sep)

\* String.prototype.trim()
RECURSIVE Trim(_)
Trim(s) ==
  IF s = <<>> THEN s
  ELSE IF Head(s) = " " THEN Trim(Tail(s))
  ELSE IF s[Len(s)] = " " THEN Trim(SubSeq(s, 1, Len(s) - 1))
  ELSE s

\* String.prototype.startsWith(word), word one symbol
StartsWith(s, word) == Len(s) >= 1 /\ s[1] = word

\* Array.prototype.map(requirement => requirement.trim())
MapTrim(toks) == [i \in 1..Len(toks) |-> Trim(toks[i])]

\* take x-data content to parse out name: 'output("test")' becomes 'output'
_parseName(attribute) == Split(attribute, "(")[1]

\* ------------------------------------------------------------------ options
defaultStrategy == <<"immediate">>

\* the attribute names the code builds from the options
AxData == "ax-data"
AxLoad == "ax-load"
AxLoadSrc == "ax-load-src"
XData == "x-data"
XIgnore == "x-ignore"
\* the name _inlineElement passes to removeAttribute: the selector, not the name
AxLoadSrcSelector == "[ax-load-src]"

\* ------------------------------------------------------------------ DOM
HasAttribute(el, n) == n \in DOMAIN el
GetAttribute(el, n) == IF n \in DOMAIN el THEN el[n] ELSE Null
SetAttribute(el, n, v) ==
  [x \in (DOMAIN el) \cup {n} |-> IF x = n THEN v ELSE el[x]]
RemoveAttribute(el, n) == [x \in (DOMAIN el) \ {n} |-> el[x]]


\* ------------------------------------------------------------------ modules
\* A module is the sequence of its exports [key, val] in Object.values order.
Undefined == "undefined"
Truthy(v) == v \notin {"undefined", "false", "null", "0"}

\* module[key]
Export(module, key) ==
  IF \E i \in 1..Len(module) : module[i].key = key
  THEN module[CHOOSE i \in 1..Len(module) : module[i].key = key].val
  ELSE Undefined

\* Object.values(module)[0]
FirstExport(module) == IF Len(module) >= 1 THEN module[1].val ELSE Undefined

\* a || b
Or(a, b) == IF Truthy(a) THEN a ELSE b

\* module[name] || module.default || Object.values(module)[0] || false
WhichExport(module, name) ==
  Or(Or(Or(Export(module, name), Export(module, <<"default">>)),
        FirstExport(module)), "false")

\* ------------------------------------------------------------------ loaders
\* data(name) without a download function stores download = false
NoDownload == [kind |-> "absent", src |-> <<>>]
\* a download function given to data(name, download)
Fn(id) == [kind |-> "fn", src |-> id]
\* () => import(srcUrl), the loader _inlineElement attaches
Import(srcUrl) == [kind |-> "import", src |-> srcUrl]

\* the export names a module file can declare, in code unit order: the order
\* in which the namespace object import() resolves to lists its own keys
ExportNames == << "alpha", "default", "other", "widget", "zeta" >>

\* the implementation a module file exports under the name k
Impl(k) ==
  IF k = "alpha" THEN "implAlpha"
  ELSE IF k = "default" THEN "implDefault"
  ELSE IF k = "other" THEN "implOther"
  ELSE IF k = "widget" THEN "implNamed"
  ELSE "implZeta"

\* the export names the module file behind a download declares, in the order
\* of their declarations; <<"module", k1, ..., kn>> declares k1, ..., kn
Declared(src) ==
  IF src = <<"empty">> THEN <<>>
  ELSE IF src = <<"named">> THEN <<"other", "widget">>
  ELSE IF Len(src) >= 1 /\ Head(src) = "module" THEN Tail(src)
  ELSE <<"default">>

\* the module namespace object of a file that declares the exports keys, as
\* Object.values enumerates it
Namespace(keys) ==
  LET IsDeclared(k) == \E i \in 1..Len(keys) : keys[i] = k
      sorted == SelectSeq(ExportNames, IsDeclared)
  IN [i \in 1..Len(sorted) |-> [key |-> <<sorted[i]>>, val |-> Impl(sorted[i])]]

\* what a call of the loader settles to: a module, or a rejection
Settles(download) ==
  IF download.src \in {<<"rejects">>, <<"/404.js">>}
    THEN [ok |-> FALSE, module |-> <<>>]
  ELSE [ok |-> TRUE, module |-> Namespace(Declared(download.src))]

\* ------------------------------------------------------------------ state
VARIABLES
  started,        \* start() has run: the MutationObserver is installed
  _data,          \* the data cache: name -> [loaded, download]
  attrs,          \* element -> its attributes
  inDoc,          \* the elements that are in the document
  pc,             \* element -> position of its _componentStrategy invocation
  cname,          \* element -> component.name of that invocation
  promises,       \* element -> the requirement promises pushed, by kind
  resolved,       \* element -> the indices of its promises that have resolved
  pending,        \* element -> the download function whose call it awaits
  whichExport,    \* element -> the export _getModule returned to _download
  loaderCalls,    \* name -> number of calls of a download function
  AlpineData,     \* name -> the implementations passed to Alpine.data, in order
  AlpineInitTree  \* element -> number of Alpine.initTree(el) calls

vars == <<started, _data, attrs, inDoc, pc, cname, promises,
          resolved, pending, whichExport, loaderCalls, AlpineData,
          AlpineInitTree>>

\* the part of the state the synchronous handlers read and write
State == [data |-> _data, attrs |-> attrs, pc |-> pc, cname |-> cname,
          promises |-> promises, resolved |-> resolved, pending |-> pending,
          calls |-> loaderCalls]

\* ------------------------------------------------------------------ inputs
\* every name an element or a registration can carry
Names == { <<"widget">>, <<"inl">>, <<"ghost">> }
\* the elements a page is made of
Element(strategy, xData) ==
  [x \in {AxLoad, AxData} |-> IF x = AxLoad THEN strategy ELSE xData]
ElementKinds ==
  << Element(<<>>, <<"widget">>),
     Element(<<"idle", " ", "|", " ", "media", "(q)">>, <<"widget", "(", "1", ")">>),
     Element(<<"eager", "|", "visible">>, <<"ghost">>),
     Element(<<"event", "|", "bogus">>, <<"inl">>),
     [x \in {AxLoad} |-> <<"idle">>],
     SetAttribute(Element(<<>>, <<"inl">>), AxLoadSrc, <<"/inl.js">>) >>

\* the pages: the elements are numbered in document order, and pages that
\* differ only in the order of their elements are taken once
Pages ==
  { [e \in Elements |-> ElementKinds[k[e]]] :
      k \in { f \in [Elements -> 1..Len(ElementKinds)] :
                \A i, j \in Elements : i <= j => f[i] <= f[j] } }

\* the calls of data(name, download) and inline(name) a page script makes
Registrations ==
  { <<name, download>> : name \in {<<"widget">>},
       download \in { Fn(<<"default">>), Fn(<<"empty">>), Fn(<<"rejects">>) } }
  \cup { <<name, NoDownload>> : name \in {<<"widget">>, <<"inl">>} }

\* ------------------------------------------------------------------ download
\* _downloadStart with _activate not awaiting _download: the instance goes on
\* while the call of the download function is still in flight
_downloadStart_noAwait(S, e, name) ==
  IF name \notin DOMAIN S.data
    THEN [S EXCEPT !.pc[e] = "rejected"]
  ELSE IF S.data[name].loaded
    THEN [S EXCEPT !.pc[e] = "downloaded"]
  ELSE IF S.data[name].download.kind = "absent"
    THEN [S EXCEPT !.pc[e] = "rejected"]
  ELSE [S EXCEPT !.pc[e] = "downloaded",
                 !.calls[name] = @ + 1]

\* _downloadStart without the loaded check
_downloadStart_noCache(S, e, name) ==
  IF name \notin DOMAIN S.data
    THEN [S EXCEPT !.pc[e] = "rejected"]
  ELSE IF S.data[name].download.kind = "absent"
    THEN [S EXCEPT !.pc[e] = "rejected"]
  ELSE [S EXCEPT !.pc[e] = "loading",
                 !.pending[e] = S.data[name].download,
                 !.calls[name] = @ + 1]

\* _download(name) up to its first suspension, with _getModule(name) up to its
\* own: the loaded check, the call of the download function
_downloadStart(S, e, name) ==
  IF name \notin DOMAIN S.data
    THEN [S EXCEPT !.pc[e] = "rejected"]          \* TypeError reading .loaded
  ELSE IF S.data[name].loaded
    THEN [S EXCEPT !.pc[e] = "downloaded"]
  ELSE IF S.data[name].download.kind = "absent"
    THEN [S EXCEPT !.pc[e] = "rejected"]          \* TypeError: not a function
  ELSE [S EXCEPT !.pc[e] = "loading",
                 !.pending[e] = S.data[name].download,
                 !.calls[name] = @ + 1]

\* ------------------------------------------------------------------ strategy
\* NotImmediateNorEager without the second filter
NotImmediate(requirement) == requirement # <<"immediate">>

\* .filter(requirement => requirement !== 'immediate')
\* .filter(requirement => requirement !== 'eager')
NotImmediateNorEager(requirement) ==
  requirement # <<"immediate">> /\ requirement # <<"eager">>

Requirements(strategy) ==
  SelectSeq(MapTrim(Split(strategy, "|")), NotImmediateNorEager)

\* GateOf with a final else branch that pushes a promise
GateOf_else(requirement) ==
  IF requirement = <<"idle">> THEN "idle"
  ELSE IF StartsWith(requirement, "visible") THEN "visible"
  ELSE IF StartsWith(requirement, "media") THEN "media"
  ELSE IF requirement = <<"event">> THEN "event"
  ELSE "unknown"

\* the promise the loop pushes for one requirement, "" when it pushes none
GateOf(requirement) ==
  IF requirement = <<"idle">> THEN "idle"
  ELSE IF StartsWith(requirement, "visible") THEN "visible"
  ELSE IF StartsWith(requirement, "media") THEN "media"
  ELSE IF requirement = <<"event">> THEN "event"
  ELSE ""

IsGate(kind) == kind # ""

Promises(requirements) ==
  SelectSeq([i \in 1..Len(requirements) |-> GateOf(requirements[i])], IsGate)

\* PromiseAll with any-of semantics (Promise.race / Promise.any)
PromiseAny(ps, done) == Len(ps) = 0 \/ \E i \in 1..Len(ps) : i \in done

\* Promise.all(promises) has resolved
PromiseAll(ps, done) == \A i \in 1..Len(ps) : i \in done

\* _componentStrategy(component) up to its first suspension
_componentStrategy(S, e, name, strategy) ==
  LET requirements == Requirements(strategy)
      S1 == [S EXCEPT !.cname[e] = name]
  IN IF Len(requirements) = 0
       THEN _downloadStart(S1, e, name)
       ELSE [S1 EXCEPT !.pc[e] = "gates",
                       !.promises[e] = Promises(requirements),
                       !.resolved[e] = {}]

\* ------------------------------------------------------------------ setup
\* _setupComponent leaving ax-data on the element
_setupComponent_keepAxData(S, e) ==
  LET el == S.attrs[e]
      xData == GetAttribute(el, AxData)
  IN IF Falsy(xData) THEN S
     ELSE
       LET name == _parseName(xData)
           strategy == IF Falsy(GetAttribute(el, AxLoad))
                         THEN defaultStrategy
                         ELSE GetAttribute(el, AxLoad)
           el1 == SetAttribute(el, XIgnore, <<>>)
           el2 == SetAttribute(el1, XData, xData)
       IN _componentStrategy([S EXCEPT !.attrs[e] = el2], e, name, strategy)

\* _setupComponent without the x-ignore attribute
_setupComponent_noIgnore(S, e) ==
  LET el == S.attrs[e]
      xData == GetAttribute(el, AxData)
  IN IF Falsy(xData) THEN S
     ELSE
       LET name == _parseName(xData)
           strategy == IF Falsy(GetAttribute(el, AxLoad))
                         THEN defaultStrategy
                         ELSE GetAttribute(el, AxLoad)
           el2 == SetAttribute(el, XData, xData)
           el3 == RemoveAttribute(el2, AxData)
       IN _componentStrategy([S EXCEPT !.attrs[e] = el3], e, name, strategy)

\* _setupComponent(el)
_setupComponent(S, e) ==
  LET el == S.attrs[e]
      xData == GetAttribute(el, AxData)
  IN IF Falsy(xData) THEN S
     ELSE
       LET name == _parseName(xData)
           strategy == IF Falsy(GetAttribute(el, AxLoad))
                         THEN defaultStrategy
                         ELSE GetAttribute(el, AxLoad)
           el1 == SetAttribute(el, XIgnore, <<>>)
           el2 == SetAttribute(el1, XData, xData)
           el3 == RemoveAttribute(el2, AxData)
       IN _componentStrategy([S EXCEPT !.attrs[e] = el3], e, name, strategy)

\* _inlineElement without the lookup of the registration
_inlineElement_noLookup(S, e) ==
  LET el == S.attrs[e]
      xData == GetAttribute(el, AxData)
      srcUrl == GetAttribute(el, AxLoadSrc)
  IN IF Falsy(xData) \/ Falsy(srcUrl) THEN S
     ELSE
       LET name == _parseName(xData)
           el1 == SetAttribute(el, XIgnore, <<>>)
           el2 == SetAttribute(el1, XData, xData)
           el3 == RemoveAttribute(el2, AxData)
           el4 == RemoveAttribute(el3, AxLoadSrcSelector)
       IN [S EXCEPT !.attrs[e] = el4,
                    !.data = [n \in (DOMAIN S.data) \cup {name} |->
                                IF n = name
                                  THEN [loaded |-> FALSE,
                                        download |-> Import(srcUrl)]
                                  ELSE S.data[n]]]

\* _inlineElement(component)
_inlineElement(S, e) ==
  LET el == S.attrs[e]
      xData == GetAttribute(el, AxData)
      srcUrl == GetAttribute(el, AxLoadSrc)
  IN IF Falsy(xData) \/ Falsy(srcUrl) THEN S
     ELSE
       LET name == _parseName(xData)
       IN IF name \notin DOMAIN S.data THEN S
          ELSE
            LET el1 == SetAttribute(el, XIgnore, <<>>)
                el2 == SetAttribute(el1, XData, xData)
                el3 == RemoveAttribute(el2, AxData)
                el4 == RemoveAttribute(el3, AxLoadSrcSelector)
            IN [S EXCEPT !.attrs[e] = el4,
                         !.data[name].download = Import(srcUrl)]

\* ------------------------------------------------------------------ scans
\* the first element of es in document order
First(es) == CHOOSE x \in es : \A y \in es : x <= y

\* document.querySelectorAll(`[${attribute}]`)
QuerySelectorAll(S, doc, attribute) ==
  { e \in doc : HasAttribute(S.attrs[e], attribute) }

\* for (const component of inlineComponents) this._inlineElement(component)
RECURSIVE InlineEach(_, _)
InlineEach(S, es) ==
  IF es = {} THEN S
  ELSE InlineEach(_inlineElement(S, First(es)), es \ {First(es)})

_processInline(S, doc) == InlineEach(S, QuerySelectorAll(S, doc, AxLoadSrc))

\* SetupEach with an exception that leaves the loop at the first element
\* whose set-up fails
RECURSIVE SetupEach_throws(_, _)
SetupEach_throws(S, es) ==
  IF es = {} THEN S
  ELSE LET S1 == _setupComponent(S, First(es))
       IN IF S1.pc[First(es)] = "rejected" THEN S1
          ELSE SetupEach_throws(S1, es \ {First(es)})

\* for (let component of components) this._setupComponent(component)
RECURSIVE SetupEach(_, _)
SetupEach(S, es) ==
  IF es = {} THEN S
  ELSE SetupEach(_setupComponent(S, First(es)), es \ {First(es)})

_setupComponents(S, doc) == SetupEach(S, QuerySelectorAll(S, doc, AxLoad))

\* the MutationObserver callback on one added node
_mutationNode(S, e) ==
  IF ~HasAttribute(S.attrs[e], AxLoad) THEN S
  ELSE LET S1 == IF HasAttribute(S.attrs[e], AxLoadSrc)
                   THEN _inlineElement(S, e) ELSE S
       IN _setupComponent(S1, e)

\* for (const node of entry.addedNodes) ...
RECURSIVE MutationEach(_, _)
MutationEach(S, es) ==
  IF es = {} THEN S
  ELSE MutationEach(_mutationNode(S, First(es)), es \ {First(es)})

\* the state after a synchronous handler that ends in the state S
Becomes(S) ==
  /\ _data' = S.data
  /\ attrs' = S.attrs
  /\ pc' = S.pc
  /\ cname' = S.cname
  /\ promises' = S.promises
  /\ resolved' = S.resolved
  /\ pending' = S.pending
  /\ loaderCalls' = S.calls

\* ------------------------------------------------------------------ actions
Init ==
  /\ started = FALSE
  /\ _data = << >>
  /\ attrs \in Pages
  /\ inDoc \in SUBSET Elements
  /\ pc = [e \in Elements |-> "none"]
  /\ cname = [e \in Elements |-> <<>>]
  /\ promises = [e \in Elements |-> <<>>]
  /\ resolved = [e \in Elements |-> {}]
  /\ pending = [e \in Elements |-> NoDownload]
  /\ whichExport = [e \in Elements |-> Undefined]
  /\ loaderCalls = [n \in Names |-> 0]
  /\ AlpineData = [n \in Names |-> <<>>]
  /\ AlpineInitTree = [e \in Elements |-> 0]

\* the component names the elements of the page carry; the registration of
\* any other name is never read
PageNames ==
  { _parseName(GetAttribute(attrs[e], a)) : e \in Elements, a \in {AxData, XData} }

\* data(name, download = false)
data(name, download) ==
  /\ name \in PageNames
  /\ _data' = [n \in (DOMAIN _data) \cup {name} |->
                 IF n = name THEN [loaded |-> FALSE, download |-> download]
                 ELSE _data[n]]
  /\ UNCHANGED <<started, attrs, inDoc, pc, cname, promises, resolved,
                 pending, whichExport, loaderCalls, AlpineData, AlpineInitTree>>

\* inline(name)
inline(name) == data(name, NoDownload)

\* start(): _processInline(), _setupComponents(), _mutations()
start ==
  /\ ~started
  /\ started' = TRUE
  /\ Becomes(_setupComponents(_processInline(State, inDoc), inDoc))
  /\ UNCHANGED <<inDoc, whichExport, AlpineData,
                 AlpineInitTree>>

\* the MutationObserver callback for one insertion into the document: added
\* are the elements that are nodes of addedNodes themselves, below the elements
\* that come in as descendants of an added node that carries no ax-load
_mutations(added, below) ==
  /\ started
  /\ added \cup below # {}
  /\ added \cap below = {}
  /\ inDoc' = inDoc \cup added \cup below
  /\ Becomes(MutationEach(State, added))
  /\ UNCHANGED <<started, whichExport, AlpineData, AlpineInitTree>>

\* a requirement promise of the element resolves (strategies.idle, .visible,
\* .media, .event)
GateResolves(e, i) ==
  /\ pc[e] = "gates"
  /\ i \in 1..Len(promises[e])
  /\ i \notin resolved[e]
  /\ resolved' = [resolved EXCEPT ![e] = @ \cup {i}]
  /\ UNCHANGED <<started, _data, attrs, inDoc, pc, cname,
                 promises, pending, whichExport, loaderCalls, AlpineData,
                 AlpineInitTree>>

\* Promise.all(promises).then(async () => { await this._download(name) ...
RequirementsMet(e) ==
  /\ pc[e] = "gates"
  /\ PromiseAll(promises[e], resolved[e])
  /\ Becomes(_downloadStart(State, e, cname[e]))
  /\ UNCHANGED <<started, inDoc, whichExport, AlpineData,
                 AlpineInitTree>>

\* _getModule with the rejection of the download swallowed
_getModule_swallow(e) ==
  /\ pc[e] = "loading"
  /\ LET r == Settles(pending[e])
     IN /\ pc' = [pc EXCEPT ![e] = "module"]
        /\ whichExport' = [whichExport EXCEPT ![e] =
                             WhichExport(r.module, cname[e])]
  /\ pending' = [pending EXCEPT ![e] = NoDownload]
  /\ UNCHANGED <<started, _data, attrs, inDoc, cname,
                 promises, resolved, loaderCalls, AlpineData, AlpineInitTree>>

\* the awaited download() settles and _getModule picks the export
_getModule(e) ==
  /\ pc[e] = "loading"
  /\ LET r == Settles(pending[e])
     IN IF r.ok
          THEN /\ pc' = [pc EXCEPT ![e] = "module"]
               /\ whichExport' = [whichExport EXCEPT ![e] =
                                    WhichExport(r.module, cname[e])]
          ELSE /\ pc' = [pc EXCEPT ![e] = "rejected"]
               /\ UNCHANGED whichExport
  /\ pending' = [pending EXCEPT ![e] = NoDownload]
  /\ UNCHANGED <<started, _data, attrs, inDoc, cname,
                 promises, resolved, loaderCalls, AlpineData, AlpineInitTree>>

\* _download after await _getModule: Alpine.data(name, module); loaded = true
_download(e) ==
  /\ pc[e] = "module"
  /\ AlpineData' = [AlpineData EXCEPT ![cname[e]] = Append(@, whichExport[e])]
  /\ _data' = [_data EXCEPT ![cname[e]].loaded = TRUE]
  /\ pc' = [pc EXCEPT ![e] = "downloaded"]
  /\ whichExport' = [whichExport EXCEPT ![e] = Undefined]
  /\ UNCHANGED <<started, attrs, inDoc, cname, promises,
                 resolved, pending, loaderCalls, AlpineInitTree>>

\* the attribute mutations of _activate
Activated(el) ==
  LET el1 == RemoveAttribute(el, AxLoad)
      xData == GetAttribute(el1, XData)
      el2 == RemoveAttribute(el1, XData)
      el3 == SetAttribute(el2, XData, xData)
  IN RemoveAttribute(el3, XIgnore)

\* _activate without the setTimeout that calls Alpine.initTree
_activate_noTimer(e) ==
  /\ pc[e] = "downloaded"
  /\ attrs' = [attrs EXCEPT ![e] = Activated(@)]
  /\ pc' = [pc EXCEPT ![e] = "stalled"]
  /\ UNCHANGED <<started, _data, inDoc, cname, promises,
                 resolved, pending, whichExport, loaderCalls, AlpineData,
                 AlpineInitTree>>

\* _activate calling Alpine.initTree itself instead of from a timer
_activate_sync(e) ==
  /\ pc[e] = "downloaded"
  /\ attrs' = [attrs EXCEPT ![e] = Activated(@)]
  /\ AlpineInitTree' = [AlpineInitTree EXCEPT ![e] = @ + 1]
  /\ pc' = [pc EXCEPT ![e] = "done"]
  /\ UNCHANGED <<started, _data, inDoc, cname, promises,
                 resolved, pending, whichExport, loaderCalls, AlpineData>>

\* _activate(component), after await this._download(component.name)
_activate(e) ==
  /\ pc[e] = "downloaded"
  /\ attrs' = [attrs EXCEPT ![e] = Activated(@)]
  /\ pc' = [pc EXCEPT ![e] = "activated"]
  /\ UNCHANGED <<started, _data, inDoc, cname, promises,
                 resolved, pending, whichExport, loaderCalls, AlpineData,
                 AlpineInitTree>>

\* setTimeout(() => { this.Alpine.initTree(component.el) }, 1)
initTree(e) ==
  /\ pc[e] = "activated"
  /\ AlpineInitTree' = [AlpineInitTree EXCEPT ![e] = @ + 1]
  /\ pc' = [pc EXCEPT ![e] = "done"]
  /\ UNCHANGED <<started, _data, attrs, inDoc, cname,
                 promises, resolved, pending, whichExport, loaderCalls,
                 AlpineData>>

Next ==
  \/ \E r \in Registrations : r[2] # NoDownload /\ data(r[1], r[2])
  \/ \E r \in Registrations : r[2] = NoDownload /\ inline(r[1])
  \/ start
  \/ \E added \in SUBSET (Elements \ inDoc) : _mutations(added, {})
  \/ \E below \in SUBSET (Elements \ inDoc) : _mutations({}, below)
  \/ \E moved \in inDoc : _mutations({moved}, {})
  \/ \E e \in Elements : \E i \in 1..Len(promises[e]) : GateResolves(e, i)
  \/ \E e \in Elements : RequirementsMet(e)
  \/ \E e \in Elements : _getModule(e)
  \/ \E e \in Elements : _download(e)
  \/ \E e \in Elements : _activate(e)
  \/ \E e \in Elements : initTree(e)

Spec == Init /\ [][Next]_vars

\* the event loop runs every queued callback, every download call settles, and
\* every requirement of an element that waits is met at some time
Fairness ==
  \A e \in Elements :
    /\ WF_vars(\E i \in 1..Len(promises[e]) : GateResolves(e, i))
    /\ WF_vars(RequirementsMet(e))
    /\ WF_vars(_getModule(e))
    /\ WF_vars(_download(e))
    /\ WF_vars(_activate(e))
    /\ WF_vars(initTree(e))

FairSpec == Init /\ [][Next]_vars /\ Fairness

\* ------------------------------------------------------------------ claims
\* e has been handed to _activate
IsActivated(e) == pc[e] \in {"activated", "done"}
\* some requirement promise of e has not resolved
SomeGateOpen(e) == \E i \in 1..Len(promises[e]) : i \notin resolved[e]
\* the step starts a load attempt on behalf of e
Attempts(e) == pc[e] \in {"none", "gates"} /\ pc'[e] \notin {"none", "gates"}
\* n is registered and its load has completed
IsLoaded(n) == n \in DOMAIN _data /\ _data[n].loaded
\* n is registered and its load has not completed
IsUnloaded(n) == n \in DOMAIN _data /\ ~_data[n].loaded

\* C1: single flight. When a second instance of a component name reaches the
\* download step while the call of the download function made for a first
\* instance is still in flight, no second call is made: at no time are two
\* calls of a name's download function in flight.
C1_SingleFlight ==
  \A e1, e2 \in Elements :
    (e1 # e2 /\ pc[e1] = "loading" /\ pc[e2] = "loading")
      => cname[e1] # cname[e2]

\* C2: Alpine.initTree is called at most once for an element and only for an
\* activated one, exactly one call is made or scheduled for every activated
\* element; at activation Alpine.data has been called for the component name of
\* the element, the element's own load step started only after all its
\* requirement promises resolved, and the element no longer carries ax-load.
C2_ActivationOrder ==
  \A e \in Elements :
    /\ AlpineInitTree[e] = (IF pc[e] = "done" THEN 1 ELSE 0)
    /\ IsActivated(e) =>
         /\ ~HasAttribute(attrs[e], AxLoad)
         /\ Len(AlpineData[cname[e]]) >= 1
    /\ pc[e] \in {"loading", "module", "downloaded", "activated", "done"}
         => ~SomeGateOpen(e)

C2_Witness ==
  \E e \in Elements :
    pc[e] = "done" /\ Len(promises[e]) >= 1 /\ AlpineInitTree[e] = 1

\* C3: an element with two or more requirement promises of which at least one
\* has not resolved is still waiting: no load attempt has been made for it, it
\* is not activated and it still carries ax-load and x-ignore.
C3_AllOf ==
  \A e \in Elements :
    (Len(promises[e]) >= 2 /\ SomeGateOpen(e)) =>
      /\ pc[e] = "gates"
      /\ pending[e] = NoDownload
      /\ HasAttribute(attrs[e], AxLoad)
      /\ HasAttribute(attrs[e], XIgnore)
      /\ AlpineInitTree[e] = 0

C3_Witness ==
  \E e \in Elements :
    /\ Len(promises[e]) = 2
    /\ Cardinality(resolved[e]) = 1
    /\ pc[e] = "gates"

\* C4: a load attempt for a registered, not loaded name whose download function
\* is absent, or whose call rejects, ends rejected; a rejected instance stays
\* rejected and is never activated; the failing step leaves every loaded flag as
\* it was; and an attempt for a registered, not loaded name that has a download
\* function calls it, whatever failed before.
C4_FailureStep(e) ==
  /\ (Attempts(e) /\ IsUnloaded(cname'[e])
        /\ _data'[cname'[e]].download.kind = "absent")
       => pc'[e] = "rejected"
  /\ (pc[e] = "loading" /\ pc'[e] # "loading" /\ ~Settles(pending[e]).ok)
       => pc'[e] = "rejected"
  /\ pc[e] = "rejected" => pc'[e] = "rejected"
  /\ pc'[e] = "rejected" =>
       /\ HasAttribute(attrs'[e], XIgnore)
       /\ HasAttribute(attrs'[e], AxLoad)
       /\ AlpineInitTree'[e] = 0
  /\ (pc[e] # "rejected" /\ pc'[e] = "rejected") =>
       /\ \A n \in DOMAIN _data : _data'[n].loaded = _data[n].loaded
       /\ AlpineData' = AlpineData
  /\ (Attempts(e) /\ IsUnloaded(cname'[e])
        /\ _data[cname'[e]].download.kind # "absent")
       => /\ pc'[e] = "loading"
          /\ loaderCalls'[cname'[e]] > loaderCalls[cname'[e]]

C4_FailureAllowsRetry == [][\A e \in Elements : C4_FailureStep(e)]_vars

C4_Witness ==
  \E e1, e2 \in Elements :
    /\ e1 # e2
    /\ cname[e1] = cname[e2]
    /\ pc[e1] = "rejected"
    /\ pc[e2] = "loading"
    /\ loaderCalls[cname[e1]] = 2

\* C5: an element without ax-data, or whose parsed name is not registered, is
\* discarded before the strategy resolver: it never has a _componentStrategy
\* invocation, so no requirement promise, no load attempt and no rejection.
C5_UnknownDiscarded ==
  \A e \in Elements :
    /\ pc[e] # "none" => cname[e] \in DOMAIN _data
    /\ (~HasAttribute(attrs[e], AxData) /\ ~HasAttribute(attrs[e], XData))
         => (pc[e] = "none" /\ promises[e] = <<>>)

\* C6: after start(), every element in the document that carries ax-load and a
\* non-empty ax-data naming a registered component has been set up, whether it
\* was there at the initial scan or was inserted later.
C6_InsertedLikeScanned ==
  started =>
    \A e \in inDoc :
      ~( /\ HasAttribute(attrs[e], AxLoad)
         /\ ~Falsy(GetAttribute(attrs[e], AxData))
         /\ _parseName(GetAttribute(attrs[e], AxData)) \in DOMAIN _data )

\* C7: an element with ax-load-src and ax-load to which _inlineElement has
\* attached the import of its source (it then carries x-data in place of
\* ax-data) has been run through the strategy resolver by the same handler.
C7_InlineEntersPipeline ==
  \A e \in Elements :
    ( /\ HasAttribute(attrs[e], AxLoadSrc)
      /\ HasAttribute(attrs[e], AxLoad)
      /\ HasAttribute(attrs[e], XData) )
      => pc[e] # "none"

\* C8: a load attempt that starts when the load of the name's registration has
\* completed calls no download function and registers nothing with Alpine for
\* that name: the element goes straight on to activation.
C8_LoadedStep(e) ==
  (Attempts(e) /\ IsLoaded(cname'[e])) =>
    /\ pc'[e] = "downloaded"
    /\ loaderCalls'[cname'[e]] = loaderCalls[cname'[e]]
    /\ AlpineData'[cname'[e]] = AlpineData[cname'[e]]
    /\ pending'[e] = NoDownload

C8_Idempotent == [][\A e \in Elements : C8_LoadedStep(e)]_vars

C8_Witness ==
  \E e1, e2 \in Elements :
    /\ e1 # e2
    /\ cname[e1] = cname[e2]
    /\ pc[e1] = "done"
    /\ pc[e2] = "done"
    /\ loaderCalls[cname[e1]] = 1
    /\ Len(AlpineData[cname[e1]]) = 1

\* C9: when no export can be selected from the module, nothing is registered
\* with Alpine: every implementation passed to Alpine.data is a selected export.
C9_NoExportFails ==
  \A n \in Names :
    \A i \in 1..Len(AlpineData[n]) : Truthy(AlpineData[n][i])

\* C10: under fairness, every element that has entered the pipeline and whose
\* load has not failed is eventually activated and handed to Alpine.initTree.
C10_EventuallyActivated ==
  \A e \in Elements :
    (pc[e] \notin {"none", "rejected"}) ~> (pc[e] \in {"done", "rejected"})

C10_Witness ==
  \E e \in Elements :
    /\ pc[e] = "done"
    /\ Len(promises[e]) = 2
    /\ AlpineData[cname[e]] = <<"implDefault">>

\* ------------------------------------------------------------------ strategies
\* the strategy expressions of at most MaxStrategyLen symbols
MaxStrategyLen == 3

StrategyAlphabet ==
  { "immediate", "eager", "idle", "event", "visible", "media", "x", "|", " " }

StrategyExpressions ==
  UNION { [1..k -> StrategyAlphabet] : k \in 0..MaxStrategyLen }

\* an element that carries ax-load and no ax-data
Inert == [x \in {AxLoad} |-> <<"idle">>]

\* a page whose first element carries the strategy expression, after
\* data('widget', download) with a download that resolves to a default export
StrategyInit ==
  /\ started = FALSE
  /\ _data = [n \in {<<"widget">>} |->
                [loaded |-> FALSE, download |-> Fn(<<"default">>)]]
  /\ \E strategy \in StrategyExpressions :
       attrs = [e \in Elements |->
                  IF e = 1 THEN Element(strategy, <<"widget">>) ELSE Inert]
  /\ inDoc = Elements
  /\ pc = [e \in Elements |-> "none"]
  /\ cname = [e \in Elements |-> <<>>]
  /\ promises = [e \in Elements |-> <<>>]
  /\ resolved = [e \in Elements |-> {}]
  /\ pending = [e \in Elements |-> NoDownload]
  /\ whichExport = [e \in Elements |-> Undefined]
  /\ loaderCalls = [n \in Names |-> 0]
  /\ AlpineData = [n \in Names |-> <<>>]
  /\ AlpineInitTree = [e \in Elements |-> 0]

StrategyNext ==
  \/ start
  \/ \E e \in Elements : \E i \in 1..Len(promises[e]) : GateResolves(e, i)
  \/ \E e \in Elements : RequirementsMet(e)
  \/ \E e \in Elements : _getModule(e)
  \/ \E e \in Elements : _download(e)
  \/ \E e \in Elements : _activate(e)
  \/ \E e \in Elements : initTree(e)

StrategySpec == StrategyInit /\ [][StrategyNext]_vars

\* e has been set up and still carries the strategy expression it came with
SetUp(e) ==
  /\ started
  /\ HasAttribute(attrs[e], AxLoad)
  /\ HasAttribute(attrs[e], XData)

\* the tokens of a strategy expression
Tokens(strategy) == Split(strategy, "|")

\* the expression is empty, or each of its tokens is one of the words
MadeOf(strategy, words) ==
  \/ strategy = <<>>
  \/ \A i \in 1..Len(Tokens(strategy)) : Tokens(strategy)[i] \in words

\* C11: an element whose strategy expression is "", "immediate", "eager" or a
\* pipe-separated combination of immediate and eager has no requirement
\* promise and is in its load step as soon as it is set up; an expression that
\* also has empty tokens creates no requirement promise either.
C11_ImmediateNoGate ==
  \A e \in Elements :
    /\ (SetUp(e) /\ MadeOf(attrs[e][AxLoad], {<<"immediate">>, <<"eager">>}))
         => /\ promises[e] = <<>>
            /\ pc[e] \in {"loading", "module", "downloaded"}
    /\ (SetUp(e) /\ MadeOf(attrs[e][AxLoad], {<<>>, <<"immediate">>, <<"eager">>}))
         => /\ promises[e] = <<>>
            /\ pc[e] \in {"gates", "loading", "module", "downloaded"}

C11_Witness ==
  \E e \in Elements :
    /\ SetUp(e)
    /\ attrs[e][AxLoad] = <<"immediate", "|", "eager">>
    /\ pc[e] = "loading"
    /\ loaderCalls[<<"widget">>] = 1

\* the requirement is one of the known kinds
Recognized(requirement) ==
  \/ requirement \in {<<"idle">>, <<"event">>}
  \/ StartsWith(requirement, "visible")
  \/ StartsWith(requirement, "media")

\* the number of tokens of the expression that are of a known kind
RecognizedCount(strategy) ==
  Cardinality({ i \in 1..Len(Tokens(strategy)) :
                  Recognized(Trim(Tokens(strategy)[i])) })

\* C12: an element waits on exactly as many requirement promises as its
\* strategy expression has tokens of a known kind; a token of no known kind
\* adds none, and no token makes the instance end rejected.
C12_UnknownIgnored ==
  \A e \in Elements :
    SetUp(e) =>
      /\ Len(promises[e]) = RecognizedCount(attrs[e][AxLoad])
      /\ pc[e] \notin {"none", "rejected"}

C12_Witness ==
  \E e \in Elements :
    /\ SetUp(e)
    /\ attrs[e][AxLoad] = <<"x", "|", "idle">>
    /\ promises[e] = <<"idle">>
    /\ pc[e] = "loading"

\* ------------------------------------------------------------------ modules
\* the modules that declare at most MaxExports exports
MaxExports == 2

ExportKeys == { ExportNames[i] : i \in 1..Len(ExportNames) }

\* the export lists of module files, in the order of their declarations
Declarations ==
  { keys \in UNION { [1..k -> ExportKeys] : k \in 0..MaxExports } :
      \A i, j \in 1..Len(keys) : i # j => keys[i] # keys[j] }

\* a page of <div ax-load ax-data="widget"> elements, after
\* data('widget', () => import(file)) for a file with the declared exports
ModuleInit ==
  /\ started = FALSE
  /\ \E keys \in Declarations :
       _data = [n \in {<<"widget">>} |->
                  [loaded |-> FALSE, download |-> Fn(<<"module">> \o keys)]]
  /\ attrs = [e \in Elements |-> Element(<<>>, <<"widget">>)]
  /\ inDoc = Elements
  /\ pc = [e \in Elements |-> "none"]
  /\ cname = [e \in Elements |-> <<>>]
  /\ promises = [e \in Elements |-> <<>>]
  /\ resolved = [e \in Elements |-> {}]
  /\ pending = [e \in Elements |-> NoDownload]
  /\ whichExport = [e \in Elements |-> Undefined]
  /\ loaderCalls = [n \in Names |-> 0]
  /\ AlpineData = [n \in Names |-> <<>>]
  /\ AlpineInitTree = [e \in Elements |-> 0]

ModuleNext ==
  \/ start
  \/ \E e \in Elements : _getModule(e)
  \/ \E e \in Elements : _download(e)
  \/ \E e \in Elements : _activate(e)
  \/ \E e \in Elements : initTree(e)

ModuleSpec == ModuleInit /\ [][ModuleNext]_vars

\* the module file declares an export under the key
Declares(keys, key) == \E i \in 1..Len(keys) : keys[i] = key

\* the export the precedence names for a module file that declares the keys
\* in this order: the component's name, then default, then the first declared
Preferred(keys, name) ==
  IF Declares(keys, name[1]) THEN Impl(name[1])
  ELSE IF Declares(keys, "default") THEN Impl("default")
  ELSE Impl(keys[1])

\* C13: the implementation registered with Alpine.data for a name is the
\* export of that name if the module declares one, otherwise the default
\* export if it declares one, otherwise the first export it declares.
C13_ExportPrecedence ==
  \A n \in DOMAIN _data :
    LET keys == Tail(_data[n].download.src)
    IN Len(keys) >= 1 =>
         \A i \in 1..Len(AlpineData[n]) : AlpineData[n][i] = Preferred(keys, n)

\* ------------------------------------------------------------------ registry
\* C14: the load state of a registration is monotonic: a name whose
\* registration is loaded has a loaded registration in every later state,
\* also after data(name) or inline(name) is called again for it.
C14_LoadedMonotonic ==
  [][\A n \in Names : IsLoaded(n) => IsLoaded(n)']_vars

\* ------------------------------------------------------------------ activation
\* the step sets x-data on e, from the expression e was discovered with
SetsXData(e) ==
  (~HasAttribute(attrs[e], XData) /\ HasAttribute(attrs'[e], XData))
    => /\ HasAttribute(attrs[e], AxData)
       /\ attrs'[e][XData] = attrs[e][AxData]

\* the step leaves the x-data that e carries as it is
KeepsXData(e) ==
  HasAttribute(attrs[e], XData)
    => /\ HasAttribute(attrs'[e], XData)
       /\ attrs'[e][XData] = attrs[e][XData]

\* C15: the step that activates an element removes ax-load and x-ignore,
\* leaves x-data with the value it had and does not call Alpine.initTree; the
\* step that calls Alpine.initTree for an element changes no attribute, and
\* the element then has no ax-load, no x-ignore and an x-data which, in every
\* step from the discovery on, has kept the value of the ax-data found.
C15_ActivateStep(e) ==
  /\ SetsXData(e)
  /\ KeepsXData(e)
  /\ (pc[e] = "downloaded" /\ pc'[e] # "downloaded")
       => /\ ~HasAttribute(attrs'[e], AxLoad)
          /\ ~HasAttribute(attrs'[e], XIgnore)
          /\ AlpineInitTree' = AlpineInitTree
          /\ pc'[e] = "activated"
  /\ (AlpineInitTree'[e] # AlpineInitTree[e])
       => /\ attrs' = attrs
          /\ pc[e] = "activated"
          /\ AlpineInitTree'[e] = AlpineInitTree[e] + 1
          /\ ~HasAttribute(attrs[e], AxLoad)
          /\ ~HasAttribute(attrs[e], XIgnore)
          /\ HasAttribute(attrs[e], XData)

PcRank(p) ==
  IF p = "none" THEN 0
  ELSE IF p = "gates" THEN 1
  ELSE IF p = "loading" THEN 2
  ELSE IF p = "module" THEN 3
  ELSE IF p = "downloaded" THEN 4
  ELSE IF p = "activated" THEN 5
  ELSE 6

\* the elements for which the step calls the download function of n
Requesting(n) ==
  { e \in Elements :
      pc[e] \in {"none", "gates"} /\ pc'[e] = "loading" /\ cname'[e] = n }

\* C16: an element enters the pipeline at most once. In no step, an insertion
\* that delivers it again included, does an element that has been set up get
\* new requirement promises, lose a resolved one, fall back to an earlier
\* stage or another name; the download function is called only for elements
\* that leave the set-up or waiting stage, and Alpine.initTree is called at
\* most once for an element.
C16_Step(e) ==
  /\ pc[e] # "none"
       => /\ promises'[e] = promises[e]
          /\ cname'[e] = cname[e]
          /\ resolved[e] \subseteq resolved'[e]
          /\ PcRank(pc'[e]) >= PcRank(pc[e])
          /\ pc[e] \in {"done", "rejected"} => pc'[e] = pc[e]
  /\ AlpineInitTree'[e] <= 1

C16_SetUpOnce ==
  [][/\ \A e \in Elements : C16_Step(e)
     /\ \A n \in Names :
          loaderCalls'[n] = loaderCalls[n] + Cardinality(Requesting(n))]_vars

C16_Witness ==
  \E e \in Elements :
    /\ started
    /\ e \in inDoc
    /\ pc[e] = "gates"
    /\ Len(promises[e]) = 2
    /\ resolved[e] = {1}
    /\ HasAttribute(attrs[e], AxLoad)

\* ------------------------------------------------------------------ x-ignore
\* Alpine.data has been called for the name of e
Registered(e) == Len(AlpineData[cname[e]]) >= 1

\* C17: an element that carries x-data and for whose name Alpine.data has not
\* been called carries x-ignore; x-ignore is removed only by the activation
\* step, which comes after the Alpine.data call for the name.
C17_IgnoredUntilRegistered ==
  /\ [](\A e \in Elements :
          (HasAttribute(attrs[e], XData) /\ ~HasAttribute(attrs[e], XIgnore))
            => (Registered(e) /\ pc[e] \in {"activated", "done"}))
  /\ [][\A e \in Elements :
          (HasAttribute(attrs[e], XIgnore) /\ ~HasAttribute(attrs'[e], XIgnore))
            => (Registered(e) /\ pc[e] = "downloaded" /\ pc'[e] = "activated")]_vars

C17_Witness ==
  \E e \in Elements :
    /\ pc[e] = "module"
    /\ HasAttribute(attrs[e], XData)
    /\ HasAttribute(attrs[e], XIgnore)
    /\ ~Registered(e)

\* ------------------------------------------------------------------ loader
\* C18: whenever a load attempt starts for a name whose registration is not
\* loaded, that registration has a download function, also when the name was
\* declared with inline(name) or with data(name) without one.
C18_LoaderPresent ==
  [][\A e \in Elements :
       (Attempts(e) /\ IsUnloaded(cname'[e]))
         => _data'[cname'[e]].download.kind # "absent"]_vars

\* ------------------------------------------------------------------ discovery
\* e carries ax-load and an ax-data that _setupComponent takes
Discoverable(e) ==
  HasAttribute(attrs[e], AxLoad) /\ ~Falsy(GetAttribute(attrs[e], AxData))

\* the step has taken e: its ax-data is consumed, by _inlineElement or by
\* _setupComponent, which then hands it to _componentStrategy
Reached(e) == pc'[e] # "none" \/ ~HasAttribute(attrs'[e], AxData)

\* C19: no discovery step is cut short by an exception. The step of start()
\* sets up every element of the document that carries ax-load and ax-data,
\* whatever happened to the elements before it; the step of an insertion that
\* sets up one of the elements it brings sets up all of them; an instance that
\* fails in the step is a rejected one, and start() has then returned.
C19_Step ==
  /\ (~started /\ started')
       => \A e \in inDoc : Discoverable(e) => Reached(e)
  /\ (\E e \in inDoc' \ inDoc : Discoverable(e) /\ Reached(e))
       => \A e \in inDoc' \ inDoc : Discoverable(e) => Reached(e)
  /\ \A e \in Elements :
       (pc[e] = "none" /\ pc'[e] # "none")
         => /\ started'
            /\ pc'[e] \in {"gates", "loading", "downloaded", "rejected"}
            /\ ~Falsy(GetAttribute(attrs'[e], XData))

C19_DiscoveryCompletes == [][C19_Step]_vars

C19_Witness ==
  \E e1, e2 \in inDoc :
    /\ e1 < e2
    /\ started
    /\ pc[e1] = "rejected"
    /\ pc[e2] = "gates"
    /\ resolved[e2] = {}

\* ------------------------------------------------------------------ inline
\* the elements _processInline can meet that _setupComponents does not take:
\* no ax-load, ax-load-src and ax-data absent, empty or with a value
InlineSources == { Null, <<>>, <<"/inl.js">> }

InlineXData == { Null, <<>>, <<"inl">>, <<"ghost">>, <<"widget", "(", "1", ")">> }

InlineElement(srcUrl, xData) ==
  [x \in {a \in {AxLoadSrc} : srcUrl # Null} \cup
         {a \in {AxData} : xData # Null} |->
     IF x = AxLoadSrc THEN srcUrl ELSE xData]

InlineInit ==
  /\ started = FALSE
  /\ _data = << >>
  /\ attrs \in [Elements -> { InlineElement(srcUrl, xData) :
                                srcUrl \in InlineSources, xData \in InlineXData }]
  /\ inDoc = Elements
  /\ pc = [e \in Elements |-> "none"]
  /\ cname = [e \in Elements |-> <<>>]
  /\ promises = [e \in Elements |-> <<>>]
  /\ resolved = [e \in Elements |-> {}]
  /\ pending = [e \in Elements |-> NoDownload]
  /\ whichExport = [e \in Elements |-> Undefined]
  /\ loaderCalls = [n \in Names |-> 0]
  /\ AlpineData = [n \in Names |-> <<>>]
  /\ AlpineInitTree = [e \in Elements |-> 0]

InlineNext ==
  \/ \E r \in Registrations : r[2] # NoDownload /\ data(r[1], r[2])
  \/ \E r \in Registrations : r[2] = NoDownload /\ inline(r[1])
  \/ start

InlineSpec == InlineInit /\ [][InlineNext]_vars

\* _inlineElement has nothing to do on e: ax-data or the source value is
\* missing, or the name of e has no registration
NothingToDo(e) ==
  \/ Falsy(GetAttribute(attrs[e], AxData))
  \/ Falsy(GetAttribute(attrs[e], AxLoadSrc))
  \/ _parseName(GetAttribute(attrs[e], AxData)) \notin DOMAIN _data

\* C20: processing an inline-source element that lacks ax-data or a source
\* value, or whose name has no registration, changes nothing: the element
\* keeps its attributes, no registration is added, no load state changes and
\* the download function of a name changes only for an element of that name
\* that lacks none of the three.
C20_Step ==
  (~started /\ started') =>
    /\ \A e \in inDoc : NothingToDo(e) => attrs'[e] = attrs[e]
    /\ DOMAIN _data' = DOMAIN _data
    /\ \A n \in DOMAIN _data :
         /\ _data'[n].loaded = _data[n].loaded
         /\ (\A e \in inDoc :
               NothingToDo(e) \/ _parseName(GetAttribute(attrs[e], AxData)) # n)
              => _data'[n] = _data[n]

C20_InlineNoOp == [][C20_Step]_vars

C20_Witness ==
  \E e1, e2 \in inDoc :
    /\ started
    /\ attrs[e1] = InlineElement(<<"/inl.js">>, <<"ghost">>)
    /\ <<"ghost">> \notin DOMAIN _data
    /\ attrs[e2] = InlineElement(<<>>, <<"inl">>)
    /\ <<"inl">> \in DOMAIN _data
    /\ _data[<<"inl">>].download = NoDownload

====
